---- MODULE Spec2Model ----
(***************************************************************************)
(* A model of EikonalPathPlanner (eikonal_path_planning.py).               *)
(*                                                                         *)
(* Numbers.  The program computes in IEEE 754 binary64, and so does the    *)
(* model: a float is <<s, e, h, l>>, standing for s * (h * 2^28 + l) * 2^e *)
(* with the sign s in {-1, 1} and the 53-bit mantissa h * 2^28 + l in      *)
(* [2^52, 2^53) (so 2^24 <= h < 2^25 and 0 <= l < 2^28); zero is           *)
(* <<0, 0, 0, 0>> and +infinity is Inf.  FAdd, FSub, FMul, FDiv and FSqrt  *)
(* round to nearest, ties to even, as the hardware does; FInt is int().    *)
(* Subnormals, overflow and NaN are out of the model's reach: no number of *)
(* the program comes near them on the inputs tried.  Long integers (the    *)
(* 106 bits of a product) are little-endian sequences of base-2^14 digits, *)
(* so that every intermediate stays inside 32 bits.                        *)
(*                                                                         *)
(* One result is not one number but a set of outcomes: x**2, which numpy   *)
(* hands to the C library's pow (faithful, not always the nearest float).  *)
(* scipy's gaussian_filter, which is no code of the repository, is         *)
(* computed as the library's source computes it.                           *)
(***************************************************************************)
EXTENDS Integers, Sequences, FiniteSets, TLC

VARIABLES
    width, height, resolution,  \* constructor arguments (self.width, ...)
    nx, ny,                     \* self.nx, self.ny
    velocity_field,             \* self.velocity_field
    obstacles,                  \* self.obstacles
    distance_field,             \* self.distance_field (None before a solve)
    pc,                         \* "idle", or "solving" inside solve_eikonal's loop
    distance, queue,            \* solve_eikonal's locals
    op, start, goal,            \* the call last made and its start and goal
                                \* arguments (<<0.0, 0.0>> when it takes none)
    ret,                        \* what that call returned (None while it runs)
    cells, steps,               \* extract_path's locals at its return:
                                \* the cells appended to the path, and steps
    last_solve                  \* history: what the most recent solve returned

vars == <<width, height, resolution, nx, ny, velocity_field, obstacles,
          distance_field, pc, distance, queue, op, start, goal, ret,
          cells, steps, last_solve>>

(***************************************************************************)
(* Values.  Let(v, F) is F(v) with v worked out once: it names the         *)
(* intermediate results of the program's expressions.                      *)
(***************************************************************************)
Let(v, F(_)) == CHOOSE r \in { F(u) : u \in {v} } : TRUE

(***************************************************************************)
(* Integer arithmetic.                                                     *)
(***************************************************************************)
Max(a, b) == IF a >= b THEN a ELSE b
Min(a, b) == IF a <= b THEN a ELSE b
Abs(a) == IF a >= 0 THEN a ELSE -a

RECURSIVE ISqrtIn(_, _, _)
\* the integer square root of s, known to lie in lo .. hi
ISqrtIn(s, lo, hi) ==
    IF lo >= hi THEN lo
    ELSE Let((lo + hi + 1) \div 2, LAMBDA mid :
             IF mid * mid <= s THEN ISqrtIn(s, mid, hi) ELSE ISqrtIn(s, lo, mid - 1))

RECURSIVE BitLen(_)
\* the number of bits of x >= 0
BitLen(x) == IF x = 0 THEN 0 ELSE 1 + BitLen(x \div 2)

(***************************************************************************)
(* binary64: representation, rounding, order.                              *)
(***************************************************************************)
Radix == 2^14
Low == 2^28
MinHigh == 2^24

Zero == <<0, 0, 0, 0>>
Inf == <<1, 4000, 0, 0>>
None == << >>

IsZero(a) == a[1] = 0

\* the mantissa h * 2^28 + l rounded to nearest, ties to even: half is the first
\* bit cut off, rest says that a later one is set
Round(s, e, h, l, half, rest) ==
    IF ~(half = 1 /\ (rest \/ l % 2 = 1)) THEN <<s, e, h, l>>
    ELSE IF l + 1 < Low THEN <<s, e, h, l + 1>>
    ELSE IF h + 1 < 2 * MinHigh THEN <<s, e, h + 1, 0>>
    ELSE <<s, e + 1, MinHigh, 0>>

\* h * 2^28 + l shifted right by d >= 0 bits: <<h, l, first bit cut off, a later
\* bit cut off is set>>
ShiftRight(h, l, d) ==
    IF d = 0 THEN <<h, l, 0, FALSE>>
    ELSE IF d <= 28
    THEN <<h \div 2^d, l \div 2^d + (h % 2^d) * 2^(28 - d),
           (l % 2^d) \div 2^(d - 1), (l % 2^d) % 2^(d - 1) # 0>>
    ELSE IF d <= 53
    THEN <<0, h \div 2^(d - 28), (h % 2^(d - 28)) \div 2^(d - 29),
           (h % 2^(d - 28)) % 2^(d - 29) # 0 \/ l # 0>>
    ELSE <<0, 0, 0, TRUE>>

\* h * 2^28 + l shifted left by z bits, the result below 2^53
ShiftLeft(h, l, z) ==
    IF z < 28
    THEN <<h * 2^z + l \div 2^(28 - z), (l % 2^(28 - z)) * 2^z>>
    ELSE <<l * 2^(z - 28), 0>>

\* the float s * (h * 2^28 + l) * 2^e of an integer h * 2^28 + l below 2^55
Normal(s, e, h, l) ==
    IF h >= 4 * MinHigh
    THEN Round(s, e + 2, h \div 4, (h % 4) * 2^26 + l \div 4, (l \div 2) % 2, l % 2 = 1)
    ELSE IF h >= 2 * MinHigh
    THEN Round(s, e + 1, h \div 2, (h % 2) * 2^27 + l \div 2, l % 2, FALSE)
    ELSE IF h = 0 /\ l = 0 THEN Zero
    ELSE Let(53 - (IF h > 0 THEN 28 + BitLen(h) ELSE BitLen(l)), LAMBDA z :
         Let(ShiftLeft(h, l, z), LAMBDA m : <<s, e - z, m[1], m[2]>>))

\* |a| < |b| for a, b other than zero
MagLess(a, b) ==
    \/ a[2] < b[2]
    \/ a[2] = b[2] /\ (a[3] < b[3] \/ (a[3] = b[3] /\ a[4] < b[4]))

\* a < b
FLess(a, b) ==
    \E x \in {a}, y \in {b} :
        IF x[1] # y[1] THEN x[1] < y[1]
        ELSE IF x[1] = 1 THEN MagLess(x, y)
        ELSE IF x[1] = -1 THEN MagLess(y, x)
        ELSE FALSE

\* a <= b
FLeq(a, b) == \E x \in {a}, y \in {b} : x = y \/ FLess(x, y)

\* max(a, b) of Python: a, unless b is greater
FMax(a, b) == Let(a, LAMBDA x : Let(b, LAMBDA y : IF FLess(x, y) THEN y ELSE x))

FNeg(a) == Let(a, LAMBDA x : <<-x[1], x[2], x[3], x[4]>>)

\* abs(a)
FAbs(a) == Let(a, LAMBDA x : <<Abs(x[1]), x[2], x[3], x[4]>>)

(***************************************************************************)
(* binary64: addition and subtraction.                                     *)
(***************************************************************************)
\* |a| + |b| with the sign of a, for a's exponent the larger
MagAdd(a, b) ==
    Let(ShiftRight(b[3], b[4], a[2] - b[2]), LAMBDA t :
    Let(a[4] + t[2], LAMBDA l :
    Let(a[3] + t[1] + l \div Low, LAMBDA h :
        IF h < 2 * MinHigh THEN Round(a[1], a[2], h, l % Low, t[3], t[4])
        ELSE Round(a[1], a[2] + 1, h \div 2, (h % 2) * 2^27 + (l % Low) \div 2,
                   l % 2, t[3] = 1 \/ t[4]))))

\* |a| - |b| with the sign of a, for |a| > |b| and exponents two apart or less:
\* the difference is exact
MagSubNear(a, b, d) ==
    Let(a[4] * 2^d - b[4], LAMBDA l :
    Let(a[3] * 2^d - b[3] + l \div Low, LAMBDA h : Normal(a[1], b[2], h, l % Low)))

\* |a| - |b| with the sign of a, for |a| > |b| and exponents more than two
\* apart: b is cut to two bits below a's last (f) and a sticky bit, and the
\* difference loses one bit at most
MagSubFar(a, b, d) ==
    Let(ShiftRight(b[3], b[4], d - 2), LAMBDA t :
    Let(t[2] % 4, LAMBDA f :
    Let(t[3] = 1 \/ t[4], LAMBDA sticky :
    Let(IF sticky THEN 3 - f ELSE IF f = 0 THEN 0 ELSE 4 - f, LAMBDA g :
    Let(a[4] - (t[2] \div 4 + (t[1] % 4) * 2^26) - (IF f # 0 \/ sticky THEN 1 ELSE 0),
        LAMBDA l :
    Let(a[3] - t[1] \div 4 + l \div Low, LAMBDA h :
        IF h >= MinHigh
        THEN Round(a[1], a[2], h, l % Low, g \div 2, g % 2 = 1 \/ sticky)
        ELSE Round(a[1], a[2] - 1, 2 * h + (l % Low) \div 2^27,
                   ((l % Low) % 2^27) * 2 + g \div 2, g % 2, sticky)))))))

\* |a| - |b| with the sign of a, for |a| > |b|
MagSub(a, b) ==
    IF a[2] - b[2] <= 2 THEN MagSubNear(a, b, a[2] - b[2])
    ELSE MagSubFar(a, b, a[2] - b[2])

\* a + b
FAdd(a, b) ==
    Let(a, LAMBDA x : Let(b, LAMBDA y :
        IF IsZero(x) THEN y
        ELSE IF IsZero(y) THEN x
        ELSE IF x = Inf \/ y = Inf THEN Inf
        ELSE IF x[1] = y[1]
        THEN (IF x[2] >= y[2] THEN MagAdd(x, y) ELSE MagAdd(y, x))
        ELSE IF x[2] = y[2] /\ x[3] = y[3] /\ x[4] = y[4] THEN Zero
        ELSE IF MagLess(x, y) THEN MagSub(y, x)
        ELSE MagSub(x, y)))

\* a - b
FSub(a, b) == FAdd(a, FNeg(b))

(***************************************************************************)
(* binary64: multiplication and division.                                  *)
(***************************************************************************)
\* the four base-2^14 digits of the mantissa h * 2^28 + l
Digits(h, l) == <<l % Radix, l \div Radix, h % Radix, h \div Radix>>

\* the 53 bits above bit g of the five digits x, high and low part
High53(x, g) == x[3] \div 2^g + x[4] * 2^(14 - g) + x[5] * 2^(14 - g) * Radix
Low53(x, g) == x[1] \div 2^g + x[2] * 2^(14 - g) + (x[3] % 2^g) * 2^(14 - g) * Radix

\* the five digits x cut to the 53 bits above bit g >= 1 and rounded; sticky: a
\* bit is set below x
Top53(s, e, x, g, sticky) ==
    Round(s, e, High53(x, g), Low53(x, g),
          (x[1] \div 2^(g - 1)) % 2, x[1] % 2^(g - 1) # 0 \/ sticky)

\* the eight digits of the product of two four-digit integers
Product(x, y) ==
    Let(x[1] * y[1], LAMBDA t1 :
    Let(x[1] * y[2] + x[2] * y[1] + t1 \div Radix, LAMBDA t2 :
    Let(x[1] * y[3] + x[2] * y[2] + x[3] * y[1] + t2 \div Radix, LAMBDA t3 :
    Let(x[1] * y[4] + x[2] * y[3] + x[3] * y[2] + x[4] * y[1] + t3 \div Radix, LAMBDA t4 :
    Let(x[2] * y[4] + x[3] * y[3] + x[4] * y[2] + t4 \div Radix, LAMBDA t5 :
    Let(x[3] * y[4] + x[4] * y[3] + t5 \div Radix, LAMBDA t6 :
    Let(x[4] * y[4] + t6 \div Radix, LAMBDA t7 :
        <<t1 % Radix, t2 % Radix, t3 % Radix, t4 % Radix, t5 % Radix, t6 % Radix,
          t7 % Radix, t7 \div Radix>>)))))))

IsPowerOfTwo(a) == a[3] = MinHigh /\ a[4] = 0

\* the product of the mantissas of x and y, neither zero nor a power of two,
\* cut to 53 bits and rounded
MulOf(x, y) ==
    Let(Product(Digits(x[3], x[4]), Digits(y[3], y[4])), LAMBDA p :
    Let(IF p[8] >= 128 THEN 11 ELSE 10, LAMBDA g :
        Top53(x[1] * y[1], x[2] + y[2] + 42 + g, <<p[4], p[5], p[6], p[7], p[8]>>, g,
              p[1] # 0 \/ p[2] # 0 \/ p[3] # 0)))

\* a * b
FMul(a, b) ==
    Let(a, LAMBDA x : Let(b, LAMBDA y :
        IF IsZero(x) \/ IsZero(y) THEN Zero
        ELSE IF IsPowerOfTwo(y) THEN <<x[1] * y[1], x[2] + y[2] + 52, x[3], x[4]>>
        ELSE IF IsPowerOfTwo(x) THEN <<x[1] * y[1], x[2] + y[2] + 52, y[3], y[4]>>
        ELSE MulOf(x, y)))

\* the floats next to the square of x, below and above, where the square lies
\* within 1/16 ulp of their midpoint (the four bits below the last one kept
\* read 0111 or 1000); else the nearest alone
SquareOf(x) ==
    Let(Product(Digits(x[3], x[4]), Digits(x[3], x[4])), LAMBDA p :
    Let(IF p[8] >= 128 THEN 11 ELSE 10, LAMBDA g :
    Let(<<High53(<<p[4], p[5], p[6], p[7], p[8]>>, g),
          Low53(<<p[4], p[5], p[6], p[7], p[8]>>, g)>>, LAMBDA m :
        IF (p[4] % 2^g) \div 2^(g - 4) \in {7, 8}
        THEN {<<1, 2 * x[2] + 42 + g, m[1], m[2]>>,
              Round(1, 2 * x[2] + 42 + g, m[1], m[2], 1, TRUE)}
        ELSE {MulOf(x, x)})))

\* a**2: numpy's power of a float64 scalar is the C library's pow(a, 2.0), which
\* need not round to nearest: glibc documents a worst-case error of 0.54 ulp.
\* Where the exact square lies within 1/16 ulp of the midpoint of two floats
\* either of the two is an outcome; elsewhere pow returns the nearest, a * a.
Pow2(a) ==
    Let(a, LAMBDA x : IF IsZero(x) \/ IsPowerOfTwo(x) THEN {FMul(x, x)} ELSE SquareOf(x))

\* R < m, for R of five digits and m of four
Less5(R, m) ==
    /\ R[5] = 0
    /\ \/ R[4] < m[4]
       \/ R[4] = m[4] /\ R[3] < m[3]
       \/ R[4] = m[4] /\ R[3] = m[3] /\ R[2] < m[2]
       \/ R[4] = m[4] /\ R[3] = m[3] /\ R[2] = m[2] /\ R[1] < m[1]

\* R - m
Sub5(R, m) ==
    Let(R[1] - m[1], LAMBDA t1 :
    Let(R[2] - m[2] + t1 \div Radix, LAMBDA t2 :
    Let(R[3] - m[3] + t2 \div Radix, LAMBDA t3 :
    Let(R[4] - m[4] + t3 \div Radix, LAMBDA t4 :
        <<t1 % Radix, t2 % Radix, t3 % Radix, t4 % Radix, R[5] + t4 \div Radix>>))))

RECURSIVE DivFix(_, _, _)
\* the quotient digit q raised until the remainder R is below the divisor m
DivFix(q, R, m) ==
    IF Less5(R, m) THEN <<q, <<R[1], R[2], R[3], R[4]>>>>
    ELSE Let(Sub5(R, m), LAMBDA R1 : DivFix(q + 1, R1, m))

\* one digit of long division: <<digit, remainder>> of (r * 2^14 + dg) by m,
\* for r < m and 2^52 <= m < 2^53; the digit is estimated from below on the
\* leading bits and then corrected
DivStep(r, dg, m) ==
    Let(((r[4] * 64 + r[3] \div 256) * Radix) \div (m[4] * 64 + m[3] \div 256 + 1),
        LAMBDA est :
    Let(dg - est * m[1], LAMBDA t1 :
    Let(r[1] - est * m[2] + t1 \div Radix, LAMBDA t2 :
    Let(r[2] - est * m[3] + t2 \div Radix, LAMBDA t3 :
    Let(r[3] - est * m[4] + t3 \div Radix, LAMBDA t4 :
    Let(<<t1 % Radix, t2 % Radix, t3 % Radix, t4 % Radix, r[4] + t4 \div Radix>>,
        LAMBDA R : DivFix(est, R, m)))))))

\* four digits, highest first, and the remainder of (r * 2^56 + n) by m
Quotient(r, n, m) ==
    Let(DivStep(r, n[4], m), LAMBDA s4 :
    Let(DivStep(s4[2], n[3], m), LAMBDA s3 :
    Let(DivStep(s3[2], n[2], m), LAMBDA s2 :
    Let(DivStep(s2[2], n[1], m), LAMBDA s1 :
        <<s4[1], s3[1], s2[1], s1[1], s1[2]>>))))

\* the quotient of the mantissas of x and y, cut to 53 bits and rounded; q5 is
\* the bit above the four quotient digits
DivOf(x, y, q5) ==
    Let(x[4] - q5 * y[4], LAMBDA l :
    Let(x[3] - q5 * y[3] + l \div Low, LAMBDA h :
    Let(Quotient(Digits(h, l % Low), <<0, 0, 0, 0>>, Digits(y[3], y[4])), LAMBDA t :
        Top53(x[1] * y[1], x[2] - y[2] - 53 + q5, <<t[4], t[3], t[2], t[1], q5>>, 3 + q5,
              t[5] # <<0, 0, 0, 0>>))))

\* a / b, for b other than zero
FDiv(a, b) ==
    Let(a, LAMBDA x : Let(b, LAMBDA y :
        IF IsZero(x) THEN Zero
        ELSE IF IsPowerOfTwo(y) THEN <<x[1] * y[1], x[2] - y[2] - 52, x[3], x[4]>>
        ELSE DivOf(x, y, IF x[3] > y[3] \/ (x[3] = y[3] /\ x[4] >= y[4]) THEN 1 ELSE 0)))

(***************************************************************************)
(* binary64: square root.                                                  *)
(***************************************************************************)
Dig(N, k) == IF k >= 1 /\ k <= Len(N) THEN N[k] ELSE 0

\* the j-th digit of N shifted right by sh bits (left, for sh < 0)
ShiftDigit(N, sh, j) ==
    (Dig(N, j + sh \div 14) \div 2^(sh % 14))
        + (Dig(N, j + sh \div 14 + 1) % 2^(sh % 14)) * 2^(14 - (sh % 14))

NatShift(N, sh) ==
    <<ShiftDigit(N, sh, 1), ShiftDigit(N, sh, 2), ShiftDigit(N, sh, 3),
      ShiftDigit(N, sh, 4), ShiftDigit(N, sh, 5), ShiftDigit(N, sh, 6),
      ShiftDigit(N, sh, 7), ShiftDigit(N, sh, 8)>>

NatLess(x, y) ==
    \E k \in 1 .. 8 : /\ Dig(x, k) < Dig(y, k)
                      /\ \A j \in k + 1 .. 8 : Dig(x, j) = Dig(y, j)

\* x - y, for x >= y
NatSub(x, y) ==
    Let(Dig(x, 1) - Dig(y, 1), LAMBDA t1 :
    Let(Dig(x, 2) - Dig(y, 2) + t1 \div Radix, LAMBDA t2 :
    Let(Dig(x, 3) - Dig(y, 3) + t2 \div Radix, LAMBDA t3 :
    Let(Dig(x, 4) - Dig(y, 4) + t3 \div Radix, LAMBDA t4 :
    Let(Dig(x, 5) - Dig(y, 5) + t4 \div Radix, LAMBDA t5 :
    Let(Dig(x, 6) - Dig(y, 6) + t5 \div Radix, LAMBDA t6 :
    Let(Dig(x, 7) - Dig(y, 7) + t6 \div Radix, LAMBDA t7 :
    Let(Dig(x, 8) - Dig(y, 8) + t7 \div Radix, LAMBDA t8 :
        <<t1 % Radix, t2 % Radix, t3 % Radix, t4 % Radix, t5 % Radix, t6 % Radix,
          t7 % Radix, t8 % Radix>>))))))))

\* (x + y) \div 2, for x and y of four digits
NatHalfSum(x, y) ==
    Let(x[1] + y[1], LAMBDA t1 :
    Let(x[2] + y[2] + t1 \div Radix, LAMBDA t2 :
    Let(x[3] + y[3] + t2 \div Radix, LAMBDA t3 :
    Let(x[4] + y[4] + t3 \div Radix, LAMBDA t4 :
    Let(<<t1 % Radix, t2 % Radix, t3 % Radix, t4 % Radix, t4 \div Radix>>, LAMBDA N :
        NatShift(N, 1))))))

RECURSIVE NatSqrtFrom(_, _)
\* Newton's iteration for the integer square root of X, from m above it
NatSqrtFrom(X, m) ==
    Let(Quotient(<<X[5], X[6], X[7], X[8]>>, X, m), LAMBDA q :
    Let(NatHalfSum(m, <<q[4], q[3], q[2], q[1]>>), LAMBDA n :
    Let(<<n[1], n[2], n[3], n[4]>>, LAMBDA m1 :
        IF NatLess(m1, m) THEN NatSqrtFrom(X, m1) ELSE m)))

\* the integer square root of X, for 2^104 <= X < 2^106
NatSqrt(X) ==
    Let(NatShift(X, 76), LAMBDA t :
    Let(ISqrtIn(t[1] + Radix * t[2] + Radix * Radix * t[3], 0, 32767), LAMBDA s :
    Let(NatShift(<<(s + 1) % Radix, (s + 1) \div Radix>>, -38), LAMBDA w :
    Let(NatSub(w, <<1>>), LAMBDA m0 :
        NatSqrtFrom(X, <<m0[1], m0[2], m0[3], m0[4]>>)))))

\* the root of the mantissa X scaled to 105 or 106 bits, with exponent e: the
\* integer root f, raised by one where the remainder is above f (the root is
\* nearer to f + 1)
SqrtOf(X, e) ==
    Let(NatSqrt(X), LAMBDA f :
    Let(Product(f, f), LAMBDA ff :
    Let(NatSub(X, ff), LAMBDA rem :
    Let(f[1] + f[2] * Radix + (IF NatLess(f, rem) THEN 1 ELSE 0), LAMBDA l :
        Normal(1, e, f[3] + f[4] * Radix + l \div Low, l % Low)))))

\* np.sqrt(a), for a >= 0
FSqrt(a) ==
    Let(a, LAMBDA x :
        IF IsZero(x) THEN Zero
        ELSE Let(NatShift(Digits(x[3], x[4]), -(52 + (x[2] % 2))), LAMBDA X :
                 SqrtOf(X, (x[2] - 52 - (x[2] % 2)) \div 2)))

(***************************************************************************)
(* binary64: conversions.                                                  *)
(***************************************************************************)
\* int(a): truncation toward zero, for |a| < 2^31
FInt(a) ==
    Let(a, LAMBDA x :
    Let(ShiftRight(x[3], x[4], -x[2]), LAMBDA t : x[1] * (t[1] * Low + t[2])))

\* math.floor(a), for |a| < 2^31
FFloor(a) ==
    Let(a, LAMBDA x :
    Let(ShiftRight(x[3], x[4], -x[2]), LAMBDA t :
        IF x[1] = -1 /\ (t[3] = 1 \/ t[4]) THEN -(t[1] * Low + t[2]) - 1
        ELSE x[1] * (t[1] * Low + t[2])))

\* float(n) of an integer n
FromInt(n) ==
    Let(n, LAMBDA k : Normal(IF k >= 0 THEN 1 ELSE -1, 0, Abs(k) \div Low, Abs(k) % Low))

\* the float a decimal literal denotes: n/d rounded to nearest
Dec(n, d) == FDiv(FromInt(n), FromInt(d))

(***************************************************************************)
(* Numbers of the program.                                                 *)
(***************************************************************************)
ONE == FromInt(1)
FLOOR_V == Dec(1, 1000)
TRANSITION == Dec(1, 2)
SMOOTH_RADIUS == Dec(3, 10)
SQRT2 == FSqrt(FromInt(2))

(***************************************************************************)
(* Bounds of the model and the inputs the calls are tried on.              *)
(***************************************************************************)
MaxObstacles == 2

\* <<width, height, resolution>> of the planners tried: (3.0, 2.0, 1.0);
\* (1.2, 0.4, 0.4), where 1.2 / 0.4 falls short of 3 and nx is 3, not 4; and
\* (0.6, 0.3, 0.3), where kernel_size is 1 and the field is blurred
Grids == { <<FromInt(3), FromInt(2), FromInt(1)>>,
           <<Dec(12, 10), Dec(4, 10), Dec(4, 10)>>,
           <<Dec(6, 10), Dec(3, 10), Dec(3, 10)>> }

\* a rectangle; a rectangle left of the grid, its slice bound negative; a
\* circle with a grid point on the outer edge of its transition band
ObstaclePool ==
    { [type |-> "rectangle", x |-> FromInt(1), y |-> FromInt(1),
       width |-> FromInt(1), height |-> FromInt(1)],
      [type |-> "rectangle", x |-> FromInt(-3), y |-> Zero,
       width |-> FromInt(1), height |-> Zero],
      [type |-> "circle", cx |-> Dec(11, 10), cy |-> FromInt(1), radius |-> Dec(6, 10)] }

\* <<x, y>>: the goals of solve, the starts and goals of extract_path
Coords == { <<Dec(2, 10), Dec(4, 10)>>, <<Dec(7, 10), Zero>>, <<Dec(12, 10), Dec(4, 10)>>,
            <<FromInt(3), Dec(24, 10)>>, <<Dec(-5, 10), FromInt(1)>> }

\* the starts of solve, which never reads its start
SolveStarts == { <<Dec(2, 10), Dec(4, 10)>>, <<FromInt(3), Dec(24, 10)>> }

(***************************************************************************)
(* The grid.                                                               *)
(***************************************************************************)
GridNx(w, r) == FInt(FDiv(w, r)) + 1
GridNy(h, r) == FInt(FDiv(h, r)) + 1

Cells == (0 .. ny - 1) \X (0 .. nx - 1)
InGrid(i, j) == 0 <= i /\ i < ny /\ 0 <= j /\ j < nx

RECURSIVE Tabulate(_, _)
\* the function f, written out cell by cell
Tabulate(S, f) ==
    IF S = {} THEN << >>
    ELSE Let(CHOOSE c \in S : TRUE, LAMBDA c : (c :> f[c]) @@ Tabulate(S \ {c}, f))

\* np.linspace(0, stop, num)[k]: k times the step stop / (num - 1), the last
\* point set to stop
Linspace(stop, num, k) ==
    IF num = 1 THEN Zero
    ELSE IF k = num - 1 THEN stop
    ELSE FMul(FromInt(k), FDiv(stop, FromInt(num - 1)))

\* self.x[j], self.y[i]
XCoord(j) == Linspace(width, nx, j)
YCoord(i) == Linspace(height, ny, i)

\* (int(p[1] / resolution), int(p[0] / resolution)) of a coordinate p = <<x, y>>
IndexOf(p) == <<FInt(FDiv(p[2], resolution)), FInt(FDiv(p[1], resolution))>>

\* (current[1] * resolution, current[0] * resolution)
CoordOf(c) == <<FMul(FromInt(c[2]), resolution), FMul(FromInt(c[1]), resolution)>>

\* (a slip: the four axis-aligned offsets only)
neighbors4 == << <<-1, 0>>, <<0, -1>>, <<0, 1>>, <<1, 0>> >>

neighbors == << <<-1, -1>>, <<-1, 0>>, <<-1, 1>>, <<0, -1>>,
                <<0, 1>>, <<1, -1>>, <<1, 0>>, <<1, 1>> >>

(***************************************************************************)
(* The velocity field.                                                     *)
(***************************************************************************)
\* the indices a[lo:hi] selects on an axis of length n, for lo >= 0
SliceRange(lo, hi, n) ==
    Let(IF hi < 0 THEN Max(hi + n, 0) ELSE Min(hi, n), LAMBDA stop :
        { k \in 0 .. n - 1 : lo <= k /\ k < stop })

AddRectangleObstacle(v, o) ==
    Let(Max(0, FInt(FDiv(o.x, resolution))), LAMBDA x_min :
    Let(Min(nx, FInt(FDiv(FAdd(o.x, o.width), resolution)) + 1), LAMBDA x_max :
    Let(Max(0, FInt(FDiv(o.y, resolution))), LAMBDA y_min :
    Let(Min(ny, FInt(FDiv(FAdd(o.y, o.height), resolution)) + 1), LAMBDA y_max :
    Let(SliceRange(y_min, y_max, ny), LAMBDA rows :
    Let(SliceRange(x_min, x_max, nx), LAMBDA cols :
        Tabulate(Cells, [c \in Cells |->
            IF c[1] \in rows /\ c[2] \in cols THEN FLOOR_V ELSE v[c]])))))))

\* line 89: the values dist can take at the cell c, one for each outcome of the
\* two squares
CircleDist(o, c) ==
    { FSqrt(FAdd(sx, sy)) : sx \in Pow2(FSub(XCoord(c[2]), o.cx)),
                            sy \in Pow2(FSub(YCoord(c[1]), o.cy)) }

\* lines 90-96: the value the circle o gives a cell at dist that held cur
CircleValue(o, cur, dist) ==
    IF FLeq(dist, o.radius) THEN FLOOR_V
    ELSE IF FLeq(dist, FAdd(o.radius, TRANSITION))
         THEN FMax(FLOOR_V, FMul(FDiv(FSub(dist, o.radius), TRANSITION), cur))
         ELSE cur

\* the values the circle o can give the cell c that held cur
CircleCell(o, c, cur) == { CircleValue(o, cur, dist) : dist \in CircleDist(o, c) }

RECURSIVE Outcomes(_, _)
\* the fields over the cells S that take, at each cell c, a value of ch[c]
Outcomes(ch, S) ==
    IF S = {} THEN { << >> }
    ELSE Let(CHOOSE c \in S : TRUE, LAMBDA c :
             { (c :> x) @@ f : x \in ch[c], f \in Outcomes(ch, S \ {c}) })

\* the fields the circle o can make of the field v
AddCircleObstacle(v, o) == Outcomes([c \in Cells |-> CircleCell(o, c, v[c])], Cells)

RECURSIVE Rasterize(_, _)
\* the fields that can result when the first k obstacles of obs are applied to
\* an all-ones field
Rasterize(obs, k) ==
    IF k = 0 THEN { Tabulate(Cells, [c \in Cells |-> ONE]) }
    ELSE UNION { IF obs[k].type = "rectangle"
                 THEN { AddRectangleObstacle(v, obs[k]) }
                 ELSE IF obs[k].type = "circle" THEN AddCircleObstacle(v, obs[k])
                 ELSE { v } : v \in Rasterize(obs, k - 1) }

KernelSize == FInt(FDiv(SMOOTH_RADIUS, resolution))

\* scipy.ndimage.gaussian_filter, which line 104 calls with sigma = kernel_size
\* and the library's defaults (order 0, mode "reflect", truncate 4.0), is no
\* code of the repository; it is modelled from the library's source, float
\* operation by float operation.

\* numpy.exp(-0.5 / sigma**2 * k**2) for sigma = 1 and k = 0 .. 4, the nearest
\* floats (kernel_size is 0 or 1 on the planners of Grids)
ExpTable ==
    << ONE,
       <<1, -53, 20351791, 208639498>>,
       <<1, -55, 18164394, 62882252>>,
       <<1, -59, 23856388, 110478359>>,
       <<1, -64, 23052816, 68167597>> >>

\* lw = int(truncate * sigma + 0.5), the half-width of the kernel
KernelRadius(sigma) == FInt(FAdd(FMul(FromInt(4), FromInt(sigma)), Dec(1, 2)))

\* phi_x.sum() over the nine samples exp(-8), exp(-4.5), ..., 1, ..., exp(-8):
\* numpy adds the first eight in pairs of pairs and then the ninth
KernelSum ==
    FAdd(FAdd(FAdd(FAdd(ExpTable[5], ExpTable[4]), FAdd(ExpTable[3], ExpTable[2])),
              FAdd(FAdd(ExpTable[1], ExpTable[2]), FAdd(ExpTable[3], ExpTable[4]))),
         ExpTable[5])

\* _gaussian_kernel1d(1, 0, 4): the weight at distance k from the centre is
\* GaussianKernel1d[k + 1]
GaussianKernel1d ==
    << FDiv(ExpTable[1], KernelSum), FDiv(ExpTable[2], KernelSum),
       FDiv(ExpTable[3], KernelSum), FDiv(ExpTable[4], KernelSum),
       FDiv(ExpTable[5], KernelSum) >>

\* mode "reflect": the sample of a line of n samples read at position i,
\* (d c b a | a b c d | d c b a)
Reflect(i, n) == Let(i % (2 * n), LAMBDA m : IF m < n THEN m ELSE 2 * n - 1 - m)

RECURSIVE CorrelateSum(_, _, _, _, _)
\* the loop of correlate1d over a symmetric kernel, for the sample l of the
\* line x: oline[l] += (iline[-k] + iline[k]) * fw[-k], from k down to 1
CorrelateSum(x, n, l, k, t) ==
    IF k = 0 THEN t
    ELSE Let(FAdd(t, FMul(FAdd(x[Reflect(l - k, n)], x[Reflect(l + k, n)]),
                          GaussianKernel1d[k + 1])), LAMBDA t1 :
             CorrelateSum(x, n, l, k - 1, t1))

\* the sample l of correlate1d(x, weights) for a line x of n samples:
\* oline[l] = iline[0] * fw[0], then the loop
Correlate1d(x, n, l, radius) ==
    CorrelateSum(x, n, l, radius, FMul(x[l], GaussianKernel1d[1]))

\* gaussian_filter(v, sigma): the lines along axis 0 are filtered first, then
\* the lines of the result along axis 1
GaussianFilter(v, sigma) ==
    Let(KernelRadius(sigma), LAMBDA radius :
    Let(Tabulate(Cells, [c \in Cells |->
            Correlate1d([i \in 0 .. ny - 1 |-> v[<<i, c[2]>>]], ny, c[1], radius)]),
        LAMBDA a :
        Tabulate(Cells, [c \in Cells |->
            Correlate1d([j \in 0 .. nx - 1 |-> a[<<c[1], j>>]], nx, c[2], radius)])))

\* the field _smooth_velocity_field makes of v
SmoothVelocityField(v) ==
    IF KernelSize > 0 THEN GaussianFilter(v, KernelSize) ELSE v

\* the fields _calculate_velocity_field can build (one for each outcome of the
\* squares in the circles)
CalculateVelocityField(obs) ==
    { SmoothVelocityField(v) : v \in Rasterize(obs, Len(obs)) }

(***************************************************************************)
(* solve_eikonal.                                                          *)
(***************************************************************************)
\* the cost of the step with offset <<di, dj>> into the cell n
EdgeCost(v, di, dj, n) ==
    IF Abs(di) + Abs(dj) = 1
    THEN FDiv(resolution, v[n])
    ELSE FDiv(FMul(resolution, SQRT2), v[n])

\* tuple order of (dist, (i, j)), as heapq compares its entries
TupleLess(a, b) ==
    \/ FLess(a[1], b[1])
    \/ a[1] = b[1] /\ a[2] < b[2]
    \/ a[1] = b[1] /\ a[2] = b[2] /\ a[3] < b[3]

\* the entry heapq.heappop returns
HeapMin(q) == CHOOSE e \in q : \A f \in q : f = e \/ TupleLess(e, f)

RECURSIVE RelaxUnguarded(_, _, _, _, _, _)
\* (a slip: the neighbour is updated and pushed without the comparison)
RelaxUnguarded(k, dist, i, j, d, q) ==
    IF k > Len(neighbors) THEN [distance |-> d, queue |-> q]
    ELSE Let(<<i + neighbors[k][1], j + neighbors[k][2]>>, LAMBDA n :
         IF InGrid(n[1], n[2])
         THEN Let(FAdd(dist, EdgeCost(velocity_field, neighbors[k][1], neighbors[k][2], n)),
                  LAMBDA new_dist :
              Let([d EXCEPT ![n] = new_dist], LAMBDA d1 :
              Let(q \cup {<<new_dist, n[1], n[2]>>}, LAMBDA q1 :
                  RelaxUnguarded(k + 1, dist, i, j, d1, q1))))
         ELSE RelaxUnguarded(k + 1, dist, i, j, d, q))

RECURSIVE RelaxNoPush(_, _, _, _, _, _)
\* (a slip: the improved neighbour is recorded but not pushed)
RelaxNoPush(k, dist, i, j, d, q) ==
    IF k > Len(neighbors) THEN [distance |-> d, queue |-> q]
    ELSE Let(<<i + neighbors[k][1], j + neighbors[k][2]>>, LAMBDA n :
         IF InGrid(n[1], n[2])
         THEN Let(FAdd(dist, EdgeCost(velocity_field, neighbors[k][1], neighbors[k][2], n)),
                  LAMBDA new_dist :
              IF FLess(new_dist, d[n])
              THEN Let([d EXCEPT ![n] = new_dist], LAMBDA d1 :
                       RelaxNoPush(k + 1, dist, i, j, d1, q))
              ELSE RelaxNoPush(k + 1, dist, i, j, d, q))
         ELSE RelaxNoPush(k + 1, dist, i, j, d, q))

RECURSIVE Relax(_, _, _, _, _, _)
\* the loop over neighbors from its k-th offset on, for the popped (dist, (i, j));
\* n is (ni, nj)
Relax(k, dist, i, j, d, q) ==
    IF k > Len(neighbors) THEN [distance |-> d, queue |-> q]
    ELSE Let(<<i + neighbors[k][1], j + neighbors[k][2]>>, LAMBDA n :
         IF InGrid(n[1], n[2])
         THEN Let(FAdd(dist, EdgeCost(velocity_field, neighbors[k][1], neighbors[k][2], n)),
                  LAMBDA new_dist :
              IF FLess(new_dist, d[n])
              THEN Let([d EXCEPT ![n] = new_dist], LAMBDA d1 :
                   Let(q \cup {<<new_dist, n[1], n[2]>>}, LAMBDA q1 :
                       Relax(k + 1, dist, i, j, d1, q1)))
              ELSE Relax(k + 1, dist, i, j, d, q))
         ELSE Relax(k + 1, dist, i, j, d, q))

\* (a slip: an entry as good as the recorded distance is dropped too)
StaleOrEqual(e, d) == FLeq(d[<<e[2], e[3]>>], e[1])

\* the popped entry is stale: dist > distance[i, j]
Stale(e, d) == FLess(d[<<e[2], e[3]>>], e[1])

\* (a slip: the wavefront is seeded at the start)
SeedAtStart(s, g) == IndexOf(s)

\* the cell solve_eikonal seeds
SeedOf(s, g) == IndexOf(g)

\* lines 117-129 of a call solve_eikonal(s, g): the velocity field, the distance
\* array and the seed
SolveBegin ==
    /\ pc = "idle"
    /\ velocity_field' \in CalculateVelocityField(obstacles)
    /\ \E s \in SolveStarts, g \in Coords :
          /\ start' = s
          /\ goal' = g
          /\ \E goal_idx \in {SeedOf(s, g)} :
                IF InGrid(goal_idx[1], goal_idx[2])
                THEN /\ distance' = [c \in Cells |-> IF c = goal_idx THEN Zero ELSE Inf]
                     /\ queue' = {<<Zero, goal_idx[1], goal_idx[2]>>}
                ELSE /\ distance' = [c \in Cells |-> Inf]
                     /\ queue' = {}
    /\ pc' = "solving"
    /\ op' = "solve"
    /\ ret' = None
    /\ cells' = << >>
    /\ steps' = 0
    /\ UNCHANGED <<width, height, resolution, nx, ny, obstacles, distance_field,
                   last_solve>>

\* lines 134-152: one iteration of the while loop
SolveStep ==
    /\ pc = "solving"
    /\ queue # {}
    /\ \E e \in {HeapMin(queue)} :
          IF Stale(e, distance)
          THEN /\ queue' = queue \ {e}
               /\ UNCHANGED distance
          ELSE \E r \in {Relax(1, e[1], e[2], e[3], distance, queue \ {e})} :
                  /\ distance' = r.distance
                  /\ queue' = r.queue
    /\ UNCHANGED <<width, height, resolution, nx, ny, velocity_field, obstacles,
                   distance_field, pc, op, start, goal, ret, cells, steps,
                   last_solve>>

\* lines 154-155: the loop is over (or was never entered)
SolveEnd ==
    /\ pc = "solving"
    /\ queue = {}
    /\ distance_field' = distance
    /\ ret' = distance
    /\ last_solve' = distance
    /\ pc' = "idle"
    /\ UNCHANGED <<width, height, resolution, nx, ny, velocity_field, obstacles,
                   distance, queue, op, start, goal, cells, steps>>

(***************************************************************************)
(* add_obstacle.                                                           *)
(***************************************************************************)
AppendObstacle(obs, o) == Append(obs, o)

\* (a slip: adding an obstacle drops the stored field)
AddObstacleInvalidating(o) ==
    /\ pc = "idle"
    /\ Len(obstacles) < MaxObstacles
    /\ obstacles' = AppendObstacle(obstacles, o)
    /\ distance_field' = None
    /\ op' = "add_obstacle"
    /\ start' = <<Zero, Zero>>
    /\ goal' = <<Zero, Zero>>
    /\ ret' = None
    /\ cells' = << >>
    /\ steps' = 0
    /\ UNCHANGED <<width, height, resolution, nx, ny, velocity_field,
                   pc, distance, queue, last_solve>>

AddObstacle(o) ==
    /\ pc = "idle"
    /\ Len(obstacles) < MaxObstacles
    /\ obstacles' = AppendObstacle(obstacles, o)
    /\ op' = "add_obstacle"
    /\ start' = <<Zero, Zero>>
    /\ goal' = <<Zero, Zero>>
    /\ ret' = None
    /\ cells' = << >>
    /\ steps' = 0
    /\ UNCHANGED <<width, height, resolution, nx, ny, velocity_field,
                   distance_field, pc, distance, queue, last_solve>>

(***************************************************************************)
(* extract_path.                                                           *)
(***************************************************************************)
RECURSIVE ScanAnySmaller(_, _, _, _, _)
\* (a slip: a neighbour is compared with the current cell's value, not with
\* the least value seen so far)
ScanAnySmaller(f, current, k, min_dist, next_pos) ==
    IF k > Len(neighbors) THEN next_pos
    ELSE Let(<<current[1] + neighbors[k][1], current[2] + neighbors[k][2]>>, LAMBDA n :
             IF InGrid(n[1], n[2]) /\ FLess(f[n], f[current])
             THEN ScanAnySmaller(f, current, k + 1, f[n], n)
             ELSE ScanAnySmaller(f, current, k + 1, min_dist, next_pos))

RECURSIVE Scan(_, _, _, _, _)
\* lines 188-193: the scan of neighbors from its k-th offset on; n is
\* (ni, nj) and the result is next_pos
Scan(f, current, k, min_dist, next_pos) ==
    IF k > Len(neighbors) THEN next_pos
    ELSE Let(<<current[1] + neighbors[k][1], current[2] + neighbors[k][2]>>, LAMBDA n :
             IF InGrid(n[1], n[2]) /\ FLess(f[n], min_dist)
             THEN Scan(f, current, k + 1, f[n], n)
             ELSE Scan(f, current, k + 1, min_dist, next_pos))

NextPos(f, current) == Scan(f, current, 1, f[current], current)

\* (a slip: only the goal's own cell stops the descent)
AtGoal(current, gi) == current = gi

\* lines 180-181: the current cell is within one cell of the goal's index gi
NearGoal(current, gi) ==
    /\ Abs(current[1] - gi[1]) <= 1
    /\ Abs(current[2] - gi[2]) <= 1

MaxSteps == nx * ny

RECURSIVE Descend(_, _, _, _, _)
\* lines 176-199: the while loop, from the cell current with n steps done and
\* the cells cs appended so far; gi is (int(goal[1] / resolution),
\* int(goal[0] / resolution))
Descend(f, gi, current, n, cs) ==
    IF n >= MaxSteps THEN [cells |-> cs, steps |-> n]
    ELSE Let(Append(cs, current), LAMBDA cs1 :
             IF NearGoal(current, gi) THEN [cells |-> cs1, steps |-> n]
             ELSE Let(NextPos(f, current), LAMBDA next_pos :
                      IF next_pos = current THEN [cells |-> cs1, steps |-> n]
                      ELSE Descend(f, gi, next_pos, n + 1, cs1)))

\* (a slip: the goal is not appended)
PathOfNoGoal(cs, g) == [k \in 1 .. Len(cs) |-> CoordOf(cs[k])]

\* the path is the cells' coordinates, then the goal as given
PathOf(cs, g) == [k \in 1 .. Len(cs) + 1 |-> IF k <= Len(cs) THEN CoordOf(cs[k]) ELSE g]

\* lines 159-165: extract_path has a field and a start cell si to descend from
CanDescend(f, si) == f # None /\ InGrid(si[1], si[2])

ExtractPath(s, g) ==
    /\ pc = "idle"
    /\ op' = "extract_path"
    /\ start' = s
    /\ goal' = g
    /\ \E start_idx \in {IndexOf(s)} :
          IF CanDescend(distance_field, start_idx)
          THEN \E goal_idx \in {IndexOf(g)} :
               \E r \in {Descend(distance_field, goal_idx, start_idx, 0, << >>)} :
                  /\ cells' = r.cells
                  /\ steps' = r.steps
                  /\ ret' = PathOf(r.cells, g)
          ELSE /\ cells' = << >>
               /\ steps' = 0
               /\ ret' = << >>
    /\ UNCHANGED <<width, height, resolution, nx, ny, velocity_field, obstacles,
                   distance_field, pc, distance, queue, last_solve>>

(***************************************************************************)
(* The planner.                                                            *)
(***************************************************************************)
Init ==
    /\ \E g \in Grids :
          /\ width = g[1]
          /\ height = g[2]
          /\ resolution = g[3]
          /\ nx = GridNx(g[1], g[3])
          /\ ny = GridNy(g[2], g[3])
          /\ velocity_field = [c \in (0 .. GridNy(g[2], g[3]) - 1)
                                      \X (0 .. GridNx(g[1], g[3]) - 1) |-> ONE]
    /\ obstacles = << >>
    /\ distance_field = None
    /\ pc = "idle"
    /\ distance = None
    /\ queue = {}
    /\ op = "init"
    /\ start = <<Zero, Zero>>
    /\ goal = <<Zero, Zero>>
    /\ ret = None
    /\ cells = << >>
    /\ steps = 0
    /\ last_solve = None

Next ==
    \/ \E o \in ObstaclePool : AddObstacle(o)
    \/ SolveBegin
    \/ SolveStep
    \/ SolveEnd
    \/ \E s \in Coords, g \in Coords : ExtractPath(s, g)

Spec == Init /\ [][Next]_vars

\* solve_eikonal runs its loop to the end and returns: nothing suspends it
FairSpec == Spec /\ WF_vars(SolveStep) /\ WF_vars(SolveEnd)

(***************************************************************************)
(* What the claims speak of.                                               *)
(***************************************************************************)
\* solve has just returned
Solved == pc = "idle" /\ op = "solve"

\* extract_path has just returned
Extracted == op = "extract_path"

IndexInGrid(p) == InGrid(IndexOf(p)[1], IndexOf(p)[2])

\* the index (floor(y/r), floor(x/r)) of a coordinate p = <<x, y>>, as the
\* specification defines to_index
FloorIndexOf(p) == <<FFloor(FDiv(p[2], resolution)), FFloor(FDiv(p[1], resolution))>>

\* u and v are distinct and 8-adjacent
Adjacent(u, v) == u # v /\ Abs(u[1] - v[1]) <= 1 /\ Abs(u[2] - v[2]) <= 1

\* the cost of the step from u into the adjacent cell v
StepCost(u, v) == EdgeCost(velocity_field, v[1] - u[1], v[2] - u[2], v)

\* the cost of a step into each cell: <<axis-aligned, diagonal>>
StepCosts ==
    Tabulate(Cells, [c \in Cells |-> <<EdgeCost(velocity_field, 0, 1, c),
                                       EdgeCost(velocity_field, 1, 1, c)>>])

\* the least of the floats of S
MinOf(S) == CHOOSE m \in S : \A x \in S : FLeq(m, x)

\* one more step allowed: each cell keeps its value or is entered from a
\* reached neighbour, at the costs w
OneMoreStep(p, w) ==
    [c \in Cells |->
        MinOf({p[c]} \cup
              { FAdd(p[u], IF Abs(c[1] - u[1]) + Abs(c[2] - u[2]) = 1
                           THEN w[c][1] ELSE w[c][2]) :
                u \in { x \in Cells : Adjacent(x, c) /\ p[x] # Inf } })]

RECURSIVE ShortestWithin(_, _, _)
\* the least cost of a path of at most k steps from src to each cell, a path's
\* cost summed from src on, each sum rounded
ShortestWithin(src, k, w) ==
    IF k = 0 THEN Tabulate(Cells, [c \in Cells |-> IF c = src THEN Zero ELSE Inf])
    ELSE Tabulate(Cells, OneMoreStep(ShortestWithin(src, k - 1, w), w))

RECURSIVE Settle(_, _)
\* steps allowed until one more changes nothing
Settle(p, w) ==
    LET q == Tabulate(Cells, OneMoreStep(p, w))
    IN  IF q = p THEN p ELSE Settle(q, w)

\* the least cost of any path from src to each cell
ShortestTime(src) == Settle(ShortestWithin(src, 0, StepCosts), StepCosts)

(***************************************************************************)
(* C1.  After solve(start, goal) with the goal's index inside the grid,    *)
(* every cell holds its shortest-time value: 0 at the goal's cell, and     *)
(* elsewhere the least summed step cost over the 8-connected in-grid paths *)
(* from the goal's cell.                                                   *)
(***************************************************************************)
C1_ShortestTime ==
    (Solved /\ IndexInGrid(goal)) => distance_field = ShortestTime(IndexOf(goal))

\* a solve over two obstacles in which some cell is reached only across an
\* obstacle's core and some cell's best path has three steps or more
C1_Witness ==
    /\ Solved
    /\ IndexInGrid(goal)
    /\ Len(obstacles) = 2
    /\ \E c \in Cells : /\ distance_field[c] # Inf
                         /\ FLeq(FDiv(resolution, FLOOR_V), distance_field[c])
    /\ \E c \in Cells :
          FLess(distance_field[c], ShortestWithin(IndexOf(goal), 2, StepCosts)[c])

(***************************************************************************)
(* C2.  Edge-consistency.  As claimed: after solve, for 8-adjacent cells   *)
(* u, v that both hold a finite distance, |distance[u] - distance[v]| is   *)
(* at most the cost of the step from u into v.                             *)
(***************************************************************************)
C2_EdgeConsistency_Claimed ==
    Solved =>
        \A u \in Cells, v \in Cells :
            (Adjacent(u, v) /\ distance_field[u] # Inf /\ distance_field[v] # Inf)
                => FLeq(FAbs(FSub(distance_field[u], distance_field[v])), StepCost(u, v))

(***************************************************************************)
(* C2, amended.  After solve, for 8-adjacent cells u, v that both hold a   *)
(* finite distance, distance[v] is at most distance[u] plus the cost of    *)
(* the step from u into v, the sum rounded as the solver rounds it.        *)
(***************************************************************************)
C2_EdgeConsistency ==
    Solved =>
        \A u \in Cells, v \in Cells :
            (Adjacent(u, v) /\ distance_field[u] # Inf /\ distance_field[v] # Inf)
                => FLeq(distance_field[v], FAdd(distance_field[u], StepCost(u, v)))

\* a solved field with two adjacent cells of different speeds, the step between
\* them tight in one direction and dearer than the difference in the other
C2_Witness ==
    /\ Solved
    /\ \E u \in Cells, v \in Cells :
          /\ Adjacent(u, v)
          /\ distance_field[u] # Inf /\ distance_field[v] # Inf
          /\ velocity_field[u] # velocity_field[v]
          /\ distance_field[v] = FAdd(distance_field[u], StepCost(u, v))
          /\ FLess(StepCost(v, u), FSub(distance_field[v], distance_field[u]))

(***************************************************************************)
(* C3.  Path termination.  As claimed: extract_path always returns a       *)
(* sequence of length >= 2 whose last element is the literal goal, within  *)
(* nx*ny descent steps, also before any solve and with a start outside the *)
(* domain.                                                                 *)
(***************************************************************************)
C3_PathTermination_Claimed ==
    Extracted => /\ Len(ret) >= 2
                 /\ ret[Len(ret)] = goal
                 /\ steps <= nx * ny

(***************************************************************************)
(* C3, amended.  When a solve has been done and the start's index          *)
(* (int(y/r), int(x/r)) is inside the grid, extract_path returns a         *)
(* sequence of length >= 2 whose last element is the literal goal, within  *)
(* nx*ny descent steps; before any solve, or with a start whose index is   *)
(* outside the grid, it returns the empty sequence.                        *)
(***************************************************************************)
C3_PathTermination ==
    Extracted =>
        IF distance_field # None /\ IndexInGrid(start)
        THEN /\ Len(ret) >= 2
             /\ ret[Len(ret)] = goal
             /\ steps <= nx * ny
             /\ Len(ret) = Len(cells) + 1
        ELSE ret = << >>

\* a descent of two moves or more that ends with a goal off its cell's corner
C3_Witness ==
    /\ Extracted
    /\ distance_field # None
    /\ steps >= 2
    /\ Len(ret) >= 4
    /\ goal # CoordOf(IndexOf(goal))

(***************************************************************************)
(* C4.  For every goal whose index (floor(y/r), floor(x/r)) lies outside   *)
(* the grid, coordinates negative by less than one cell included, solve    *)
(* returns a field that is +infinity in every cell and stores it as the    *)
(* planner's distance field.                                               *)
(***************************************************************************)
C4_OutOfGridGoal ==
    (Solved /\ ~InGrid(FloorIndexOf(goal)[1], FloorIndexOf(goal)[2]))
        => /\ \A c \in Cells : ret[c] = Inf
           /\ distance_field = ret

(***************************************************************************)
(* C5.  Zero at source.  After solve(start, goal) with the goal's index    *)
(* inside the grid, the field is 0 at the goal's index and strictly        *)
(* positive in every other cell, whatever start is.                        *)
(***************************************************************************)
C5_ZeroAtSource ==
    (Solved /\ IndexInGrid(goal))
        => /\ distance_field[IndexOf(goal)] = Zero
           /\ \A c \in Cells : c # IndexOf(goal) => FLess(Zero, distance_field[c])

\* a solve whose start lies in another cell of the grid than its goal
C5_Witness ==
    /\ Solved
    /\ IndexInGrid(goal)
    /\ IndexInGrid(start)
    /\ IndexOf(start) # IndexOf(goal)
    /\ FLess(Zero, distance_field[IndexOf(start)])
    /\ distance_field[IndexOf(start)] # Inf

(***************************************************************************)
(* C6.  Degenerate path.  When a solve has been done and the start's index *)
(* is inside the grid and is the goal's index or within one cell of it in  *)
(* both axes, extract_path returns exactly two points: the coordinate      *)
(* (j*r, i*r) of the start's cell, then the goal as given.                 *)
(***************************************************************************)
C6_DegeneratePath ==
    ( /\ Extracted
      /\ distance_field # None
      /\ IndexInGrid(start)
      /\ Abs(IndexOf(start)[1] - IndexOf(goal)[1]) <= 1
      /\ Abs(IndexOf(start)[2] - IndexOf(goal)[2]) <= 1 )
        => ret = << CoordOf(IndexOf(start)), goal >>

\* an extraction whose start cell is next to the goal's cell, not the same
\* cell, and holds a larger distance than a neighbour
C6_Witness ==
    /\ Extracted
    /\ distance_field # None
    /\ IndexInGrid(start)
    /\ IndexOf(start) # IndexOf(goal)
    /\ Abs(IndexOf(start)[1] - IndexOf(goal)[1]) <= 1
    /\ Abs(IndexOf(start)[2] - IndexOf(goal)[2]) <= 1
    /\ NextPos(distance_field, IndexOf(start)) # IndexOf(start)
    /\ Len(ret) = 2

(***************************************************************************)
(* C7.  Velocity bounds.  After any sequence of add_obstacle calls, every  *)
(* cell of the field the rasterization builds, obstacle by obstacle, lies  *)
(* in [0.001, 1.0], and applying a circle never raises a cell's value.     *)
(***************************************************************************)
C7_VelocityBounds ==
    op = "add_obstacle" =>
        /\ \A k \in 0 .. Len(obstacles) : \A f \in Rasterize(obstacles, k) :
              \A c \in Cells : FLeq(FLOOR_V, f[c]) /\ FLeq(f[c], ONE)
        /\ \A k \in 1 .. Len(obstacles) :
              obstacles[k].type = "circle"
                  => \A v \in Rasterize(obstacles, k - 1) :
                        \A f \in AddCircleObstacle(v, obstacles[k]) :
                           \A c \in Cells : FLeq(f[c], v[c])

(***************************************************************************)
(* C8.  The stored distance field is the field the most recent solve       *)
(* returned (absent before the first): add_obstacle appends one descriptor *)
(* to the obstacle list and changes nothing else of the planner,           *)
(* extract_path changes nothing of the planner, and so a path extracted    *)
(* after add_obstacle without a new solve comes from the field that        *)
(* predates the obstacle.                                                  *)
(***************************************************************************)
planner == <<width, height, resolution, nx, ny, velocity_field, obstacles,
             distance_field>>

C8_Frame ==
    /\ [](distance_field = last_solve)
    /\ [][ /\ op' = "add_obstacle" =>
                /\ \E o \in ObstaclePool : obstacles' = Append(obstacles, o)
                /\ UNCHANGED <<width, height, resolution, nx, ny, velocity_field,
                               distance_field>>
           /\ op' = "extract_path" =>
                /\ UNCHANGED planner
                /\ \E gi \in {IndexOf(goal')}, si \in {IndexOf(start')} :
                      ret' = IF distance_field # None /\ IndexInGrid(start')
                             THEN PathOf(Descend(last_solve, gi, si, 0, << >>).cells,
                                         goal')
                             ELSE << >>
         ]_vars

\* a path of three points or more extracted from a field that an obstacle
\* added since would change
C8_Witness ==
    /\ Extracted
    /\ distance_field # None
    /\ velocity_field \notin CalculateVelocityField(obstacles)
    /\ Len(ret) >= 3

(***************************************************************************)
(* C9.  The loop of solve terminates: the queue becomes empty; a stale     *)
(* entry (its key greater than its cell's recorded distance) is dropped    *)
(* and relaxes no neighbour; and a cell's recorded distance never grows.   *)
(***************************************************************************)
\* the entry the next iteration pops is stale
StaleOnTop ==
    /\ pc = "solving"
    /\ queue # {}
    /\ \E e \in queue :
          /\ \A f \in queue : f = e \/ TupleLess(e, f)
          /\ FLess(distance[<<e[2], e[3]>>], e[1])

C9_SolverLoop ==
    /\ (pc = "solving") ~> (pc = "solving" /\ queue = {})
    /\ [][ StaleOnTop =>
              /\ distance' = distance
              /\ \E e \in queue : queue' = queue \ {e} ]_vars
    /\ [][ (pc = "solving" /\ pc' = "solving") =>
              \A c \in Cells : FLeq(distance'[c], distance[c]) ]_vars

\* a stale entry is on top of the queue, left there by a cell that was
\* improved after its first push
C9_Witness ==
    /\ StaleOnTop
    /\ Len(obstacles) >= 1
    /\ \E e \in queue, f \in queue : e[2] = f[2] /\ e[3] = f[3] /\ FLess(e[1], f[1])

(***************************************************************************)
(* C10.  In extract_path every move goes from the current cell to an       *)
(* in-grid 8-neighbour whose distance is the least among the in-grid       *)
(* neighbours and strictly less than the current cell's; with no strictly  *)
(* smaller neighbour the loop stops.  So along the grid points of the path *)
(* (all but the final goal) the distances strictly decrease, consecutive   *)
(* points are 8-adjacent, and no cell appears twice.                       *)
(***************************************************************************)
NeighboursOf(a) == { n \in Cells : Adjacent(a, n) }

C10_GreedyDescent ==
    (Extracted /\ distance_field # None /\ IndexInGrid(start)) =>
        /\ Len(cells) >= 1
        /\ cells[1] = IndexOf(start)
        /\ Len(cells) = steps + 1
        /\ \A k \in 1 .. Len(cells) - 1 :
              /\ cells[k + 1] \in NeighboursOf(cells[k])
              /\ FLess(distance_field[cells[k + 1]], distance_field[cells[k]])
              /\ \A n \in NeighboursOf(cells[k]) :
                    FLeq(distance_field[cells[k + 1]], distance_field[n])
        /\ LET l == cells[Len(cells)]
           IN  \/ /\ Abs(l[1] - IndexOf(goal)[1]) <= 1
                  /\ Abs(l[2] - IndexOf(goal)[2]) <= 1
               \/ \A n \in NeighboursOf(l) : FLeq(distance_field[l], distance_field[n])
        /\ \A k \in 1 .. Len(cells) : ret[k] = CoordOf(cells[k])
        /\ \A j \in 1 .. Len(cells), k \in 1 .. Len(cells) :
              j # k => cells[j] # cells[k]

\* a descent of two moves or more, one of them from a cell with two or more
\* strictly smaller neighbours of different values
C10_Witness ==
    /\ Extracted
    /\ distance_field # None
    /\ Len(cells) >= 3
    /\ \E k \in 1 .. Len(cells) - 1 :
          \E n \in NeighboursOf(cells[k]) :
              /\ FLess(distance_field[n], distance_field[cells[k]])
              /\ FLess(distance_field[cells[k + 1]], distance_field[n])

(***************************************************************************)
(* C11.  After solve(_, goal) with the goal's index inside the grid every  *)
(* cell holds a finite distance, and extract_path(start, goal) with the    *)
(* same goal and a start inside the grid never stops at a local minimum    *)
(* and never exhausts the nx*ny step bound: the descent ends at a cell     *)
(* within one cell of the goal's index in both axes, and the next-to-last  *)
(* element of the path is that cell's coordinate.                          *)
(***************************************************************************)
\* the stored field is that of a solve whose goal had the index of p: the
\* wavefront was seeded, with 0, at that cell
SolvedFor(p) ==
    /\ distance_field # None
    /\ IndexInGrid(p)
    /\ distance_field[IndexOf(p)] = Zero

C11_DescentReachesGoal ==
    /\ (Solved /\ IndexInGrid(goal)) =>
          /\ SolvedFor(goal)
          /\ \A c \in Cells : distance_field[c] # Inf
    /\ (Extracted /\ SolvedFor(goal) /\ IndexInGrid(start)) =>
          /\ \A c \in Cells : distance_field[c] # Inf
          /\ steps < nx * ny
          /\ Len(cells) = steps + 1
          /\ LET l == cells[Len(cells)]
             IN  /\ Abs(l[1] - IndexOf(goal)[1]) <= 1
                 /\ Abs(l[2] - IndexOf(goal)[2]) <= 1
                 /\ Len(ret) = Len(cells) + 1
                 /\ ret[Len(ret) - 1] = CoordOf(l)
                 /\ ret[Len(ret)] = goal

\* a descent of two moves or more across a field solved over two obstacles,
\* from a start whose cell is not next to the goal's, passing a cell that
\* has a neighbour of larger distance nearer to the goal's cell
C11_Witness ==
    /\ Extracted
    /\ SolvedFor(goal)
    /\ IndexInGrid(start)
    /\ Len(obstacles) = 2
    /\ steps >= 2
    /\ Abs(IndexOf(start)[2] - IndexOf(goal)[2]) > 1
    /\ \E k \in 1 .. Len(cells) : \E n \in NeighboursOf(cells[k]) :
          /\ FLess(distance_field[cells[k]], distance_field[n])
          /\ Abs(n[2] - IndexOf(goal)[2]) < Abs(cells[k][2] - IndexOf(goal)[2])

====
